---------------------------- MODULE Spec2Model ----------------------------
(***************************************************************************)
(* A model of the area manager: the AOI store (src/src/area_utils.py),     *)
(* the time-range store (src/src/time_range_manager.py), the SAR query     *)
(* pipeline (src/src/sar_utils.py) and the session handlers of the UI      *)
(* (src/app/main.py).                                                      *)
(*                                                                         *)
(* Python's Optional[X] is a sequence of length 0 (None) or 1 (a value),   *)
(* so that every value compared in the model is comparable.                *)
(***************************************************************************)
EXTENDS Integers, Sequences, FiniteSets, TLC

VARIABLES
    file,        \* data/areas.geojson: the "features" list of the document
    clock,       \* the reading datetime.now() gives
    names,       \* history: the names the calls so far have left in the store
    last,        \* the last AOIManager call: its arguments and its outcome
    trfile,      \* data/timeranges.json: None while it does not exist
    timeranges,  \* self.timeranges of each TimeRangeManager, None before __init__
    trlast,      \* the last TimeRangeManager call and what it returned
    sarlast,     \* the last SARManager call: its arguments and its outcome
    query,       \* st.session_state.current_query of the session
    previews,    \* history: the Preview Query clicks so far, modulo 2
    export       \* one pixel on its way from the imagery to the exported file

aoivars == <<file, names, last>>

trvars == <<trfile, timeranges, trlast>>

uivars == <<query, previews>>

vars ==
    <<file, clock, names, last, trfile, timeranges, trlast, sarlast, query,
      previews, export>>

----------------------------------------------------------------------------
(* Bounds and input sets *)

MaxRingPts == 4

\* The readings of the clock run from 0 to MaxClock.
MaxClock == 2

Names == {"Field A", "Field B"}

Descs == {"", "note"}

\* Longitude/latitude pairs in tenths of a degree; the first four are the
\* ring of the "Field A" scenario.
Vertices ==
    << <<250, 546>>, <<251, 546>>, <<251, 547>>, <<250, 547>>,
       <<249, 548>>, <<248, 546>>, <<249, 545>> >>

\* The ring a drawing of n vertices yields, with or without the first point
\* repeated at the end.
Ring(n, closed) ==
    LET open == [i \in 1..n |-> Vertices[i]]
    IN  IF closed /\ n > 0 THEN Append(open, Vertices[1]) ELSE open

\* The empty ring, rings too short for a polygon, a triangle and the largest
\* ring, each open and closed.
RingSizes == {0, 2, 3, MaxRingPts}

Rings == {Ring(n, c) : n \in RingSizes, c \in BOOLEAN}

None == <<>>

Some(x) == <<x>>

Opt(S) == {None} \cup {Some(x) : x \in S}

----------------------------------------------------------------------------
(* AOIManager *)

\* The document a fresh store holds.
EmptyCollection == <<>>

_load_geojson(f) == f

_save_geojson(data) == data

list_areas(f) ==
    LET data == _load_geojson(f)
    IN  [i \in 1..Len(data) |-> data[i].name]

InList(x, s) == \E i \in 1..Len(s) : s[i] = x

\* add_area with the write made before the duplicate check.
add_area_write_first(f, name, coordinates, description, now) ==
    LET data == _load_geojson(f)
        feature == [name |-> name,
                    description |-> description,
                    created |-> now,
                    modified |-> now,
                    coordinates |-> <<coordinates>>]
    IN  [result |-> IF InList(name, list_areas(f)) THEN "ValueError" ELSE "ok",
         file |-> _save_geojson(Append(data, feature))]

\* add_area storing the ring without its last point.
add_area_strip_last(f, name, coordinates, description, now) ==
    LET data == _load_geojson(f)
        feature == [name |-> name,
                    description |-> description,
                    created |-> now,
                    modified |-> now,
                    coordinates |->
                        <<IF coordinates = <<>> THEN coordinates
                          ELSE SubSeq(coordinates, 1, Len(coordinates) - 1)>>]
    IN  IF InList(name, list_areas(f))
        THEN [result |-> "ValueError", file |-> f]
        ELSE [result |-> "ok", file |-> _save_geojson(Append(data, feature))]

\* add_area without the check of the existing names.
add_area_unchecked(f, name, coordinates, description, now) ==
    LET data == _load_geojson(f)
        feature == [name |-> name,
                    description |-> description,
                    created |-> now,
                    modified |-> now,
                    coordinates |-> <<coordinates>>]
    IN  [result |-> "ok", file |-> _save_geojson(Append(data, feature))]

\* add_area: the outcome and the file it leaves.
add_area(f, name, coordinates, description, now) ==
    LET data == _load_geojson(f)
        feature == [name |-> name,
                    description |-> description,
                    created |-> now,
                    modified |-> now,
                    coordinates |-> <<coordinates>>]
    IN  IF InList(name, list_areas(f))
        THEN [result |-> "ValueError", file |-> f]
        ELSE [result |-> "ok", file |-> _save_geojson(Append(data, feature))]

\* delete_area raising when nothing matches.
delete_area_strict(f, name) ==
    LET data == _load_geojson(f)
        keep(feat) == feat.name # name
    IN  IF InList(name, list_areas(f))
        THEN [result |-> "ok", file |-> _save_geojson(SelectSeq(data, keep))]
        ELSE [result |-> "ValueError", file |-> f]

\* delete_area without the save.
delete_area_no_save(f, name) ==
    [result |-> "ok", file |-> f]

delete_area(f, name) ==
    LET data == _load_geojson(f)
        keep(feat) == feat.name # name
    IN  [result |-> "ok", file |-> _save_geojson(SelectSeq(data, keep))]

\* The first feature of that name, or None.
get_area(f, name) ==
    LET data == _load_geojson(f)
        hits == {i \in 1..Len(data) : data[i].name = name}
    IN  IF hits = {} THEN None
        ELSE Some(data[CHOOSE i \in hits : \A j \in hits : i <= j])

\* Python's truth value of an Optional list: None and [] are both false.
Truthy(opt) == opt # None /\ opt[1] # <<>>

\* update_area stamping the creation time as well.
update_area_restamping(f, name, coordinates, description, now) ==
    LET data == _load_geojson(f)
        hits == {i \in 1..Len(data) : data[i].name = name}
        first == CHOOSE i \in hits : \A j \in hits : i <= j
        upd(feat) ==
            [feat EXCEPT
                !.coordinates = IF Truthy(coordinates) THEN <<coordinates[1]>> ELSE @,
                !.description = IF description # None THEN description[1] ELSE @,
                !.created = now,
                !.modified = now]
        new == IF hits = {} THEN data
               ELSE [data EXCEPT ![first] = upd(data[first])]
    IN  [result |-> "ok", file |-> _save_geojson(new)]

update_area(f, name, coordinates, description, now) ==
    LET data == _load_geojson(f)
        hits == {i \in 1..Len(data) : data[i].name = name}
        first == CHOOSE i \in hits : \A j \in hits : i <= j
        upd(feat) ==
            [feat EXCEPT
                !.coordinates = IF Truthy(coordinates) THEN <<coordinates[1]>> ELSE @,
                !.description = IF description # None THEN description[1] ELSE @,
                !.modified = now]
        new == IF hits = {} THEN data
               ELSE [data EXCEPT ![first] = upd(data[first])]
    IN  [result |-> "ok", file |-> _save_geojson(new)]

----------------------------------------------------------------------------
(* Date texts and datetime.strptime(text, "%Y-%m-%d") *)

\* A text is its "-"-separated fields, each a sequence of characters; a
\* character is a digit 0..9 or Letter.
Letter == 10

IsDigits(fld) == \A i \in 1..Len(fld) : fld[i] \in 0..9

RECURSIVE Value(_)
Value(fld) ==
    IF fld = <<>> THEN 0
    ELSE 10 * Value(SubSeq(fld, 1, Len(fld) - 1)) + fld[Len(fld)]

IsLeap(y) == (y % 4 = 0 /\ y % 100 # 0) \/ y % 400 = 0

DaysInMonth(y, m) ==
    IF m = 2 THEN (IF IsLeap(y) THEN 29 ELSE 28)
    ELSE IF m \in {4, 6, 9, 11} THEN 30 ELSE 31

RECURSIVE DaysBeforeMonth(_, _)
DaysBeforeMonth(y, m) ==
    IF m <= 1 THEN 0 ELSE DaysBeforeMonth(y, m - 1) + DaysInMonth(y, m - 1)

\* The day number of a calendar date (datetime.toordinal).
Ordinal(y, m, d) ==
    LET p == y - 1
    IN  p * 365 + p \div 4 - p \div 100 + p \div 400 + DaysBeforeMonth(y, m) + d

\* strptime with "%Y-%m-%d": %Y is four digits, %m is 1..12 and %d is 1..31
\* in one or two digits (the leading zero is optional), nothing may remain,
\* and the day must exist in the month.  Some(<<y, m, d>>), or None for
\* ValueError.
Strptime(text) ==
    IF /\ Len(text) = 3
       /\ \A i \in 1..3 : IsDigits(text[i])
       /\ Len(text[1]) = 4
       /\ Len(text[2]) \in {1, 2}
       /\ Len(text[3]) \in {1, 2}
       /\ Value(text[1]) >= 1
       /\ Value(text[2]) \in 1..12
       /\ Value(text[3]) \in 1..DaysInMonth(Value(text[1]), Value(text[2]))
    THEN Some(<<Value(text[1]), Value(text[2]), Value(text[3])>>)
    ELSE None

\* A calendar date written as YYYY-MM-DD: four, two and two digits.
WellFormed(text) ==
    /\ Strptime(text) # None
    /\ Len(text[2]) = 2
    /\ Len(text[3]) = 2

DateOrd(text) ==
    LET ymd == Strptime(text)[1] IN Ordinal(ymd[1], ymd[2], ymd[3])

\* "2023-12-01", "2024-01-01", "2024-02-30", "2024-1-5", "Q"
DateTexts ==
    { << <<2, 0, 2, 3>>, <<1, 2>>, <<0, 1>> >>,
      << <<2, 0, 2, 4>>, <<0, 1>>, <<0, 1>> >>,
      << <<2, 0, 2, 4>>, <<0, 2>>, <<3, 0>> >>,
      << <<2, 0, 2, 4>>, <<1>>, <<5>> >>,
      << <<Letter>> >> }

----------------------------------------------------------------------------
(* TimeRangeManager *)

NumSessions == 2

Sessions == 1..NumSessions

RangeNames == {"Q1", "Q2"}

EmptyMap == <<>>

\* dict[key] = value
Put(map, key, value) ==
    [k \in DOMAIN map \cup {key} |-> IF k = key THEN value ELSE map[k]]

\* del dict[key]
Del(map, key) == [k \in DOMAIN map \ {key} |-> map[k]]

\* What a call returns, self.timeranges after it and the file after it.
_save_timeranges(mem) == Some(mem)

save_timerange(mem, f, name, start_date, end_date, now) ==
    IF Strptime(start_date) = None \/ Strptime(end_date) = None
    THEN [ret |-> FALSE, mem |-> mem, file |-> f]
    ELSE LET new == Put(mem, name, [start_date |-> start_date,
                                     end_date |-> end_date,
                                     timestamp |-> now])
         IN  [ret |-> TRUE, mem |-> new, file |-> _save_timeranges(new)]

get_timerange(mem, name) ==
    IF name \in DOMAIN mem THEN Some(mem[name]) ELSE None

list_timeranges(mem) == DOMAIN mem

delete_timerange(mem, f, name) ==
    IF name \in DOMAIN mem
    THEN [ret |-> TRUE, mem |-> Del(mem, name),
          file |-> _save_timeranges(Del(mem, name))]
    ELSE [ret |-> FALSE, mem |-> mem, file |-> f]

clear_all(mem, f) ==
    [ret |-> TRUE, mem |-> EmptyMap, file |-> _save_timeranges(EmptyMap)]

TRCall(op, i, name, start, end, out) ==
    [op |-> op, inst |-> i, name |-> name, start |-> start, end |-> end,
     ret |-> out.ret]

\* TimeRangeManager(): a session builds its manager, which reads the file
\* once, or writes an empty one if there is none.
Construct(i) ==
    /\ timeranges[i] = None
    /\ IF trfile # None
       THEN /\ timeranges' = [timeranges EXCEPT ![i] = Some(trfile[1])]
            /\ UNCHANGED trfile
       ELSE /\ timeranges' = [timeranges EXCEPT ![i] = Some(EmptyMap)]
            /\ trfile' = _save_timeranges(EmptyMap)
    /\ trlast' = [op |-> "__init__", inst |-> i, name |-> "", start |-> <<>>,
                  end |-> <<>>, ret |-> TRUE]
    /\ UNCHANGED <<clock, export, aoivars, sarlast, uivars>>

SaveTimerange(i, name, start_date, end_date) ==
    /\ timeranges[i] # None
    /\ LET out == save_timerange(timeranges[i][1], trfile, name,
                                 start_date, end_date, clock)
       IN  /\ timeranges' = [timeranges EXCEPT ![i] = Some(out.mem)]
           /\ trfile' = out.file
           /\ trlast' = TRCall("save_timerange", i, name, start_date, end_date, out)
    /\ UNCHANGED <<clock, export, aoivars, sarlast, uivars>>

DeleteTimerange(i, name) ==
    /\ timeranges[i] # None
    /\ LET out == delete_timerange(timeranges[i][1], trfile, name)
       IN  /\ timeranges' = [timeranges EXCEPT ![i] = Some(out.mem)]
           /\ trfile' = out.file
           /\ trlast' = TRCall("delete_timerange", i, name, <<>>, <<>>, out)
    /\ UNCHANGED <<clock, export, aoivars, sarlast, uivars>>

ClearAll(i) ==
    /\ timeranges[i] # None
    /\ LET out == clear_all(timeranges[i][1], trfile)
       IN  /\ timeranges' = [timeranges EXCEPT ![i] = Some(out.mem)]
           /\ trfile' = out.file
           /\ trlast' = TRCall("clear_all", i, "", <<>>, <<>>, out)
    /\ UNCHANGED <<clock, export, aoivars, sarlast, uivars>>

----------------------------------------------------------------------------
(* SARManager and the remote imagery service *)

MaxItems == 1

\* What the environment of one call does: whether ee.Geometry accepts the
\* geometry, which of the call's requests to the service fails (0: none),
\* whether the service reads dates written without leading zeros, and the
\* items of the collection that match the dates and the bounds: those with
\* VV and VH in IW mode, and the others.
Envs ==
    [geom : BOOLEAN, fail_at : 0..3, lenient : BOOLEAN,
     dual : 0..MaxItems, other : 0..MaxItems]

\* The ring the SAR manager is called with directly.
QueryRings == {Ring(MaxRingPts, TRUE)}

\* The geometry block of a stored feature.
Geometry(ring) == [type |-> "Polygon", coordinates |-> <<ring>>]

ServiceParses(text, env) ==
    WellFormed(text) \/ (env.lenient /\ Strptime(text) # None)

\* ee_end_date.difference(ee_start_date, 'day').getInfo(): a number of days,
\* or None when the request fails or the service cannot read a date.
ServiceDifference(start_date, end_date, env) ==
    IF env.fail_at = 1 THEN None
    ELSE IF ~ServiceParses(start_date, env) \/ ~ServiceParses(end_date, env)
    THEN None
    ELSE Some(DateOrd(end_date) - DateOrd(start_date))

\* The outcome of a call: what it returned or raised, the item count it
\* resolved, the calls of _create_composite and the requests to the service
\* it made, and the items the composite was built from.
Outcome(kind, size, builder_calls, requests, contributed) ==
    [kind |-> kind, size |-> size, builder_calls |-> builder_calls,
     requests |-> requests, contributed |-> contributed]

\* _validate_dates with "<" for "<=".
_validate_dates_accepting_equal(start_date, end_date, env) ==
    LET diff == ServiceDifference(start_date, end_date, env)
    IN  IF diff = None THEN "ValueError"
        ELSE IF diff[1] < 0 THEN "ValueError"
        ELSE "ok"

\* _validate_dates: every exception of the try block, the one it raises for
\* end <= start included, leaves as ValueError.
_validate_dates(start_date, end_date, env) ==
    LET diff == ServiceDifference(start_date, end_date, env)
    IN  IF diff = None THEN "ValueError"
        ELSE IF diff[1] <= 0 THEN "ValueError"
        ELSE "ok"

\* The items that pass the filters of _create_composite.
_create_composite(collection) == collection.dual

\* process_area without the return on an empty collection.
process_area_no_short_circuit(geometry, start_date, end_date, env) ==
    LET collection == [dual |-> env.dual, other |-> env.other]
        size == collection.dual + collection.other
    IN  IF ~env.geom THEN Outcome("EEException", None, 0, 0, None)
        ELSE IF _validate_dates(start_date, end_date, env) # "ok"
        THEN Outcome("ValueError", None, 0, 1, None)
        ELSE IF env.fail_at = 2 THEN Outcome("EEException", None, 0, 2, None)
        ELSE IF env.fail_at = 3
        THEN Outcome("EEException", Some(size), 1, 3,
                     Some(_create_composite(collection)))
        ELSE Outcome("SARData", Some(size), 1, 3,
                     Some(_create_composite(collection)))

process_area(geometry, start_date, end_date, env) ==
    LET collection == [dual |-> env.dual, other |-> env.other]
        size == collection.dual + collection.other
    IN  IF ~env.geom THEN Outcome("EEException", None, 0, 0, None)
        ELSE IF _validate_dates(start_date, end_date, env) # "ok"
        THEN Outcome("ValueError", None, 0, 1, None)
        ELSE IF env.fail_at = 2 THEN Outcome("EEException", None, 0, 2, None)
        ELSE IF size = 0 THEN Outcome("None", Some(size), 0, 2, None)
        ELSE IF env.fail_at = 3
        THEN Outcome("EEException", Some(size), 1, 3,
                     Some(_create_composite(collection)))
        ELSE Outcome("SARData", Some(size), 1, 3,
                     Some(_create_composite(collection)))

\* preview_query: a ValueError becomes the dictionary with the 'error' key
\* and image_count 0; any other exception is raised again.
preview_query(geometry, start_date, end_date, env) ==
    LET size == env.dual + env.other
    IN  IF ~env.geom THEN Outcome("EEException", None, 0, 0, None)
        ELSE IF _validate_dates(start_date, end_date, env) # "ok"
        THEN Outcome("preview_error", Some(0), 0, 1, None)
        ELSE IF env.fail_at = 2 THEN Outcome("EEException", None, 0, 2, None)
        ELSE IF env.fail_at = 3 THEN Outcome("EEException", Some(size), 0, 3, None)
        ELSE Outcome("preview", Some(size), 0, 3, None)

\* What a call leaves in `sarlast`: the call, its outcome, whether the service
\* could read both dates, and the request of the call at which the service
\* failed (0: at none).
SARCall(op, start_date, end_date, env, out) ==
    [op |-> op, start |-> start_date, end |-> end_date, out |-> out,
     parsed |-> ServiceParses(start_date, env) /\ ServiceParses(end_date, env),
     fault |-> IF env.fail_at \in 1..out.requests THEN env.fail_at ELSE 0]

ProcessArea(geometry, start_date, end_date, env) ==
    /\ sarlast' = SARCall("process_area", start_date, end_date, env,
                          process_area(geometry, start_date, end_date, env))
    /\ UNCHANGED <<clock, export, aoivars, trvars, uivars>>

PreviewQuery(geometry, start_date, end_date, env) ==
    /\ sarlast' = SARCall("preview_query", start_date, end_date, env,
                          preview_query(geometry, start_date, end_date, env))
    /\ UNCHANGED <<clock, export, aoivars, trvars, uivars>>

----------------------------------------------------------------------------
(* The values of a pixel: composite and export *)

\* The constants of start_export: composite.multiply(35).add(-30).
ExportScale == 35

ExportOffset == -30

\* The interval of backscatter values, in dB, that the constants of
\* start_export span: from add(-30) to multiply(35).add(-30) of 1.
SourceMin == ExportOffset

SourceMax == ExportScale + ExportOffset

\* How far outside the interval the values of the imagery go.
MaxMargin == 5

\* The backscatter values of the imagery, in whole dB.
Physical == (SourceMin - MaxMargin)..(SourceMax + MaxMargin)

Bands == {"VH_ascending", "VH_descending", "VV_combined"}

\* The pixel of the composite where the imagery holds v: the bands are
\* selected, reduced by max() and smoothed by focal_median(); no step maps
\* the value to another scale, so a uniform patch of v stays v.
CompositePixel(v) == v

\* The pixel start_export writes for a pixel of the composite.
ExportPixel(p) == p * ExportScale + ExportOffset

\* _create_composite over imagery that holds `physical` in `band`.
CreateComposite(band, physical) ==
    /\ export' = [stage |-> "composite", band |-> band, physical |-> physical,
                  pixel |-> CompositePixel(physical), value |-> 0]
    /\ UNCHANGED <<clock, aoivars, trvars, sarlast, uivars>>

\* start_export of that composite.
StartExport ==
    /\ export.stage = "composite"
    /\ export' = [export EXCEPT !.stage = "exported",
                                !.value = ExportPixel(export.pixel)]
    /\ UNCHANGED <<clock, aoivars, trvars, sarlast, uivars>>

----------------------------------------------------------------------------
(* The session handlers of main() *)

\* What the drawing tool yields: a closed ring.
DrawnRings == {Ring(MaxRingPts, TRUE)}

\* The name typed for a time range.
TypedRangeNames == {"Q1"}

\* The service as a session meets it: the dates of a query are written by
\* strftime, and every item found is a dual-polarisation IW item.
UIEnvs == {env \in Envs : ~env.lenient /\ env.other = 0}

\* The dates the date inputs and datetime.now() give: 2023-12-25, 2024-01-01.
UIDates == {<<2023, 12, 25>>, <<2024, 1, 1>>}

QuickSpans == {7, 14, 30}

\* The digits of n in w places.
RECURSIVE Digits(_, _)
Digits(n, w) ==
    IF w = 0 THEN <<>> ELSE Append(Digits(n \div 10, w - 1), n % 10)

\* date.strftime("%Y-%m-%d")
Strftime(ymd) == <<Digits(ymd[1], 4), Digits(ymd[2], 2), Digits(ymd[3], 2)>>

\* Save Area: the last drawing, if any, is added under the typed name; an
\* error of add_area is shown, not raised.
UI_SaveArea(name, drawing) ==
    /\ IF drawing = None
       THEN UNCHANGED <<file, names>>
       ELSE LET out == add_area(file, name, drawing[1], "", clock)
            IN  /\ file' = out.file
                /\ names' = IF out.result = "ok" THEN names \cup {name} ELSE names
    /\ UNCHANGED <<clock, export, last, trvars, sarlast, uivars>>

\* Delete Area, on the area selected among list_areas().
UI_DeleteArea(selected) ==
    /\ InList(selected, list_areas(file))
    /\ file' = delete_area(file, selected).file
    /\ names' = names \ {selected}
    /\ UNCHANGED <<clock, export, last, trvars, sarlast, uivars>>

\* Load to Query, on the area selected among list_areas().
UI_LoadAOI(selected) ==
    /\ InList(selected, list_areas(file))
    /\ query' = [query EXCEPT !.aoi = Some(selected)]
    /\ UNCHANGED <<clock, export, aoivars, trvars, sarlast, previews>>

\* Last 7 / 14 / 30 days.
UI_QuickDates(today, days) ==
    /\ \E start \in UIDates :
          /\ Ordinal(today[1], today[2], today[3])
               - Ordinal(start[1], start[2], start[3]) = days
          /\ query' = [query EXCEPT !.start_date = Some(Strftime(start)),
                                    !.end_date = Some(Strftime(today))]
    /\ UNCHANGED <<clock, export, aoivars, trvars, sarlast, previews>>

\* Save Range, with a name typed and both dates picked.
UI_SaveRange(name, start_date, end_date) ==
    /\ LET out == save_timerange(timeranges[1][1], trfile, name,
                                 Strftime(start_date), Strftime(end_date), clock)
       IN  /\ timeranges' = [timeranges EXCEPT ![1] = Some(out.mem)]
           /\ trfile' = out.file
    /\ UNCHANGED <<clock, export, aoivars, trlast, sarlast, uivars>>

\* Delete Range, on the range selected among list_timeranges().
UI_DeleteRange(selected) ==
    /\ selected \in list_timeranges(timeranges[1][1])
    /\ LET out == delete_timerange(timeranges[1][1], trfile, selected)
       IN  /\ timeranges' = [timeranges EXCEPT ![1] = Some(out.mem)]
           /\ trfile' = out.file
    /\ UNCHANGED <<clock, export, aoivars, trlast, sarlast, uivars>>

\* Load to Query, on the range selected among list_timeranges().
UI_LoadRange(selected) ==
    /\ selected \in list_timeranges(timeranges[1][1])
    /\ LET timerange == get_timerange(timeranges[1][1], selected)
       IN  IF timerange # None
           THEN query' = [query EXCEPT !.start_date = Some(timerange[1].start_date),
                                       !.end_date = Some(timerange[1].end_date)]
           ELSE UNCHANGED query
    /\ UNCHANGED <<clock, export, aoivars, trvars, sarlast, previews>>

\* area = get_area(current_query['aoi']) of the query buttons.
QueryArea == get_area(file, query.aoi[1])

\* area['geometry'] when get_area returned None.
NoAreaError == Outcome("TypeError", None, 0, 0, None)

\* Preview Query with a write of the queried dates to the time-range store.
UI_PreviewQuery_remembering(env) ==
    /\ query.aoi # None /\ query.start_date # None
    /\ previews' = (previews + 1) % 2
    /\ sarlast' = SARCall("preview_query", query.start_date[1], query.end_date[1], env,
                          IF QueryArea = None THEN NoAreaError
                          ELSE preview_query(Geometry(QueryArea[1].coordinates[1]),
                                  query.start_date[1], query.end_date[1], env))
    /\ LET out == save_timerange(timeranges[1][1], trfile, "last preview",
                                 query.start_date[1], query.end_date[1], clock)
       IN  /\ timeranges' = [timeranges EXCEPT ![1] = Some(out.mem)]
           /\ trfile' = out.file
    /\ UNCHANGED <<clock, export, aoivars, trlast, query>>

\* Preview Query, shown once an area and a start date are in the query.
UI_PreviewQuery(env) ==
    /\ query.aoi # None /\ query.start_date # None
    /\ previews' = (previews + 1) % 2
    /\ sarlast' = SARCall("preview_query", query.start_date[1], query.end_date[1], env,
                          IF QueryArea = None THEN NoAreaError
                          ELSE preview_query(Geometry(QueryArea[1].coordinates[1]),
                                  query.start_date[1], query.end_date[1], env))
    /\ UNCHANGED <<clock, export, aoivars, trvars, query>>

\* Execute Query, shown once an area and a start date are in the query.
UI_ExecuteQuery(env) ==
    /\ query.aoi # None /\ query.start_date # None
    /\ sarlast' = SARCall("process_area", query.start_date[1], query.end_date[1], env,
                          IF QueryArea = None THEN NoAreaError
                          ELSE process_area(Geometry(QueryArea[1].coordinates[1]),
                                  query.start_date[1], query.end_date[1], env))
    /\ UNCHANGED <<clock, export, aoivars, trvars, uivars>>

----------------------------------------------------------------------------
(* The calls as steps *)

\* What a call leaves in `last`: the call, whether the name was in the store
\* when it was made, and the successful call on the same name right before it.
Call(op, name, ring, out) ==
    [op |-> op, name |-> name, ring |-> ring, result |-> out.result,
     present |-> InList(name, list_areas(file)),
     prev |-> IF last.name = name /\ last.result = "ok" THEN last.op ELSE "none"]

AddArea(name, coordinates, description) ==
    LET out == add_area(file, name, coordinates, description, clock)
    IN  /\ file' = out.file
        /\ last' = Call("add_area", name, Some(coordinates), out)
        /\ names' = IF out.result = "ok" THEN names \cup {name} ELSE names
        /\ UNCHANGED <<clock, export, trvars, sarlast, uivars>>

DeleteArea(name) ==
    LET out == delete_area(file, name)
    IN  /\ file' = out.file
        /\ last' = Call("delete_area", name, None, out)
        /\ names' = names \ {name}
        /\ UNCHANGED <<clock, export, trvars, sarlast, uivars>>

UpdateArea(name, coordinates, description) ==
    LET out == update_area(file, name, coordinates, description, clock)
    IN  /\ file' = out.file
        /\ last' = Call("update_area", name, None, out)
        /\ UNCHANGED <<names, clock, export, trvars, sarlast, uivars>>

\* The state once the first session has built its managers on an empty data
\* directory: both files exist and are empty.
Init ==
    /\ file = EmptyCollection
    /\ clock = 0
    /\ names = {}
    /\ last = [op |-> "init", name |-> "", ring |-> None, result |-> "ok",
               present |-> FALSE, prev |-> "none"]
    /\ trfile = Some(EmptyMap)
    /\ timeranges = [i \in Sessions |-> IF i = 1 THEN Some(EmptyMap) ELSE None]
    /\ trlast = [op |-> "init", inst |-> 1, name |-> "", start |-> <<>>,
                 end |-> <<>>, ret |-> TRUE]
    /\ sarlast = [op |-> "init", start |-> <<>>, end |-> <<>>,
                  out |-> Outcome("init", None, 0, 0, None),
                  parsed |-> TRUE, fault |-> 0]
    /\ query = [aoi |-> None, start_date |-> None, end_date |-> None]
    /\ previews = 0
    /\ export = [stage |-> "none", band |-> "", physical |-> 0, pixel |-> 0,
                 value |-> 0]

Next ==
    \/ \E n \in Names, r \in Rings, d \in Descs : AddArea(n, r, d)
    \/ \E n \in Names : DeleteArea(n)
    \/ \E n \in Names, r \in Opt(Rings), d \in Opt(Descs) : UpdateArea(n, r, d)

Spec == Init /\ [][Next]_vars

\* datetime.now() moves on between two calls.
Tick ==
    /\ clock < MaxClock
    /\ clock' = clock + 1
    /\ UNCHANGED <<export, aoivars, trvars, sarlast, uivars>>

\* The rings given to update_area: none, the empty list, a triangle.
UpdateRings == {None, Some(<<>>), Some(Ring(3, TRUE))}

\* The AOI store with time passing between the calls: drawn areas are added
\* and then updated.
NextClock ==
    \/ Tick
    \/ \E n \in Names, r \in DrawnRings : AddArea(n, r, "")
    \/ \E n \in Names, r \in UpdateRings, d \in Opt(Descs) : UpdateArea(n, r, d)

SpecClock == Init /\ [][NextClock]_vars

\* The time-range store, used through the manager of one session.
NextTR ==
    \/ \E n \in RangeNames, s \in DateTexts, e \in DateTexts :
            SaveTimerange(1, n, s, e)
    \/ \E n \in RangeNames : DeleteTimerange(1, n)
    \/ ClearAll(1)

SpecTR == Init /\ [][NextTR]_vars

\* The range the sessions save: 2023-12-01 to 2024-01-01.
SessionStart == <<<<2, 0, 2, 3>>, <<1, 2>>, <<0, 1>>>>

SessionEnd == <<<<2, 0, 2, 4>>, <<0, 1>>, <<0, 1>>>>

\* The time-range store used by several sessions of one process, each
\* through its own manager on the same file.
NextSessions ==
    \/ \E i \in Sessions : Construct(i)
    \/ \E i \in Sessions, n \in RangeNames :
            SaveTimerange(i, n, SessionStart, SessionEnd)
    \/ \E i \in Sessions, n \in RangeNames : DeleteTimerange(i, n)
    \/ \E i \in Sessions : ClearAll(i)

SpecSessions == Init /\ [][NextSessions]_vars

\* The SAR manager, called with any stored geometry, any two date texts and
\* any behaviour of the service.
NextSAR ==
    \/ \E r \in QueryRings, s \in DateTexts, e \in DateTexts, env \in Envs :
            ProcessArea(Geometry(r), s, e, env)
    \/ \E r \in QueryRings, s \in DateTexts, e \in DateTexts, env \in Envs :
            PreviewQuery(Geometry(r), s, e, env)

SpecSAR == Init /\ [][NextSAR]_vars

\* A composite is built for any value of the imagery, then exported.
NextExport ==
    \/ \E b \in Bands, v \in Physical : CreateComposite(b, v)
    \/ StartExport

SpecExport == Init /\ [][NextExport]_vars

\* One session of the UI.
NextUI ==
    \/ \E n \in Names, d \in Opt(DrawnRings) : UI_SaveArea(n, d)
    \/ \E n \in Names : UI_DeleteArea(n)
    \/ \E n \in Names : UI_LoadAOI(n)
    \/ \E t \in UIDates, k \in QuickSpans : UI_QuickDates(t, k)
    \/ \E n \in TypedRangeNames, s \in UIDates, e \in UIDates :
            UI_SaveRange(n, s, e)
    \/ \E n \in TypedRangeNames : UI_DeleteRange(n)
    \/ \E n \in TypedRangeNames : UI_LoadRange(n)
    \/ \E env \in UIEnvs : UI_PreviewQuery(env)
    \/ \E env \in UIEnvs : UI_ExecuteQuery(env)

SpecUI == Init /\ [][NextUI]_vars

----------------------------------------------------------------------------
(* Claims on the AOI store *)

NameSet(f) == {list_areas(f)[i] : i \in 1..Len(list_areas(f))}

\* A ring with its first point repeated at the end, unless it already is.
CloseRing(r) ==
    IF r = <<>> \/ r[1] = r[Len(r)] THEN r ELSE Append(r, r[1])

StoredRing(f, name) == get_area(f, name)[1].coordinates[1]

\* C1: add_area with a name already in the store fails with an error, and
\* the name list and every stored feature are the same after the call.
C1_DuplicateAddFails ==
    [][(last'.op = "add_area" /\ InList(last'.name, list_areas(file)))
        => (/\ last'.result = "ValueError"
            /\ file' = file
            /\ list_areas(file') = list_areas(file))]_vars

C1_Witness ==
    /\ last.op = "add_area"
    /\ last.present
    /\ last.result = "ValueError"
    /\ Len(file) = 2

\* C2: after a successful add_area(name, ring) of a ring of at least 3 points,
\* list_areas() contains name and get_area(name) holds a ring equal to the
\* input up to the closing point; after delete_area(name), list_areas() does
\* not contain name and get_area(name) is None.
C2_AddGetDelete ==
    /\ (last.op = "add_area" /\ last.result = "ok" /\ Len(last.ring[1]) >= 3)
        => (/\ InList(last.name, list_areas(file))
            /\ get_area(file, last.name) # None
            /\ CloseRing(StoredRing(file, last.name)) = CloseRing(last.ring[1]))
    /\ last.op = "delete_area"
        => (/\ ~InList(last.name, list_areas(file))
            /\ get_area(file, last.name) = None)

\* A delete_area right after the add_area of the same name, the other area
\* being in the store.
C2_Witness ==
    /\ last.op = "delete_area"
    /\ last.prev = "add_area"
    /\ last.present
    /\ Len(file) = 1

\* C3: delete_area of a name that is not in the store (deleted before, or
\* never present) raises no error and leaves the store as it was; no
\* delete_area raises.
C3_DeleteIdempotent ==
    [][(last'.op = "delete_area")
        => (/\ last'.result = "ok"
            /\ ~InList(last'.name, list_areas(file)) => file' = file)]_vars

\* The second of two delete_area calls on one name, another area in the store.
C3_Witness ==
    /\ last.op = "delete_area"
    /\ last.prev = "delete_area"
    /\ ~last.present
    /\ Len(file) = 1

\* C8: add_area with a ring of fewer than 3 points fails and leaves the store
\* unchanged, so no stored ring has fewer than 3 points.
C8_ShortRingRejected ==
    /\ (last.op = "add_area" /\ Len(last.ring[1]) < 3) => last.result # "ok"
    /\ \A i \in 1..Len(file) : Len(file[i].coordinates[1]) >= 3

\* C9: update_area on a name that is not in the store fails with an error.
C9_UpdateAbsentFails ==
    (last.op = "update_area" /\ ~last.present) => last.result # "ok"

\* C10: list_areas() returns exactly the names the calls so far have left in
\* the store, each once.
C10_ListIsCurrent ==
    /\ NameSet(file) = names
    /\ Len(list_areas(file)) = Cardinality(names)

\* A delete_area that removed one area and left the other.
C10_Witness ==
    /\ last.op = "delete_area"
    /\ last.present
    /\ names # {}
    /\ NameSet(file) = names

\* C15: no two stored features have the same name, whatever add_area,
\* update_area and delete_area calls were made on the empty store.
C15_NamesUnique ==
    \A i, j \in 1..Len(file) : file[i].name = file[j].name => i = j

\* A name added again after its deletion, the other area in the store.
C15_Witness ==
    /\ last.op = "add_area"
    /\ last.result = "ok"
    /\ last.prev = "delete_area"
    /\ Len(file) = 2

\* C16: every stored ring of at least 3 points has its first point repeated
\* at its end, whether the ring given to add_area or update_area had it so
\* or not.
C16_StoredRingsClosed ==
    \A i \in 1..Len(file) :
        LET ring == file[i].coordinates[1]
        IN  Len(ring) >= 3 => ring[1] = ring[Len(ring)]

\* What update_area(name, coordinates, description) may change of a store
\* holding `name`: no name, no creation time, no field given as None, no
\* other feature; the modification time becomes the time of the call.
UpdateFrame(name, coordinates, description) ==
    LET old == get_area(file, name)[1]
        new == get_area(file', name)[1]
    IN  /\ list_areas(file') = list_areas(file)
        /\ new.name = old.name
        /\ new.created = old.created
        /\ new.modified = clock
        /\ coordinates = None => new.coordinates = old.coordinates
        /\ description = None => new.description = old.description
        /\ \A i \in 1..Len(file) : file[i].name # name => file'[i] = file[i]

\* C14: update_area on a name of the store changes only what is given: a
\* field left out keeps its value, the name and the creation time are kept,
\* the modification time is refreshed, every other area is unchanged.
C14_UpdateChangesOnlyGiven ==
    [][\A n \in Names, r \in UpdateRings, d \in Opt(Descs) :
          (UpdateArea(n, r, d) /\ InList(n, list_areas(file)))
              => UpdateFrame(n, r, d)]_vars

\* An area updated later than it was created, next to an area that was not
\* touched at that time.
C14_Witness ==
    /\ last.op = "update_area"
    /\ last.present
    /\ Len(file) = 2
    /\ \A i \in 1..Len(file) :
          IF file[i].name = last.name
          THEN file[i].modified = clock /\ file[i].created < clock
          ELSE file[i].modified < clock

----------------------------------------------------------------------------
(* Claims on the time-range store *)

StoreUnchanged == timeranges' = timeranges /\ trfile' = trfile

\* C4: save_timerange with two well-formed dates and end <= start returns
\* False and leaves the in-memory map and the backing file as they were.
C4_NonChronologicalRejected ==
    [][(/\ trlast'.op = "save_timerange"
        /\ WellFormed(trlast'.start)
        /\ WellFormed(trlast'.end)
        /\ DateOrd(trlast'.end) <= DateOrd(trlast'.start))
        => (trlast'.ret = FALSE /\ StoreUnchanged)]_vars

\* C5: save_timerange returns False and leaves the in-memory map and the
\* backing file as they were when either date is not a well-formed
\* YYYY-MM-DD date.
C5_MalformedRejected ==
    [][(/\ trlast'.op = "save_timerange"
        /\ ~WellFormed(trlast'.start) \/ ~WellFormed(trlast'.end))
        => (trlast'.ret = FALSE /\ StoreUnchanged)]_vars

\* C19: after every call, list_timeranges() and get_timerange() of every
\* manager opened on the file give what the file holds, and a
\* save_timerange through one manager keeps every record of the file.
C19_ManagersAgreeWithFile ==
    [][/\ \A i \in Sessions :
            timeranges'[i] # None
                => /\ list_timeranges(timeranges'[i][1]) = list_timeranges(trfile'[1])
                   /\ \A n \in RangeNames :
                        get_timerange(timeranges'[i][1], n)
                            = get_timerange(trfile'[1], n)
       /\ trlast'.op = "save_timerange"
            => list_timeranges(trfile[1]) \subseteq list_timeranges(trfile'[1])]_vars

----------------------------------------------------------------------------
(* Claims on the SAR manager *)

\* C6 as stated: when the count resolved is zero process_area returns None
\* and never calls _create_composite; when it is positive _create_composite
\* is called exactly once and a result is returned.
C6_CountDecidesResult ==
    (sarlast.op = "process_area" /\ sarlast.out.size # None)
        => IF sarlast.out.size[1] = 0
           THEN sarlast.out.kind = "None" /\ sarlast.out.builder_calls = 0
           ELSE sarlast.out.kind = "SARData" /\ sarlast.out.builder_calls = 1

\* C6: when the count resolved is zero process_area returns None and never
\* calls _create_composite; when it is positive _create_composite is called
\* exactly once, and a result is returned unless the request for the bounds
\* that follows fails, in which case the error of the service is raised.
C6_CountDecidesBuilder ==
    (sarlast.op = "process_area" /\ sarlast.out.size # None)
        => IF sarlast.out.size[1] = 0
           THEN sarlast.out.kind = "None" /\ sarlast.out.builder_calls = 0
           ELSE /\ sarlast.out.builder_calls = 1
                /\ \/ sarlast.out.kind = "SARData"
                   \/ sarlast.out.kind = "EEException" /\ sarlast.out.requests = 3

\* A process_area call that found no item.
C6_Witness ==
    /\ sarlast.op = "process_area"
    /\ sarlast.out.size = Some(0)
    /\ sarlast.out.kind = "None"

\* A pair of dates that fails to parse, at the service or at all, or that is
\* not in order.
InvalidRange(call) ==
    \/ ~call.parsed
    \/ DateOrd(call.end) <= DateOrd(call.start)

\* C11: when a date fails to parse or end <= start, process_area raises: the
\* ValueError of _validate_dates, or the error of ee.Geometry on a geometry it
\* rejects before the dates are looked at; it returns neither a composite
\* nor None.
C11_InvalidRangeRaises ==
    (sarlast.op = "process_area" /\ InvalidRange(sarlast))
        => (/\ sarlast.out.kind \notin {"SARData", "None"}
            /\ \/ sarlast.out.kind = "ValueError"
               \/ sarlast.out.kind = "EEException" /\ sarlast.out.requests = 0)

\* process_area on two equal well-formed dates that the service answered.
C11_Witness ==
    /\ sarlast.op = "process_area"
    /\ sarlast.parsed
    /\ sarlast.fault = 0
    /\ WellFormed(sarlast.start)
    /\ sarlast.end = sarlast.start
    /\ sarlast.out.kind = "ValueError"

\* C12: when the date range is invalid, preview_query and process_area fail
\* without a request to the service.
C12_NoRequestOnInvalidRange ==
    (sarlast.op \in {"process_area", "preview_query"} /\ InvalidRange(sarlast))
        => sarlast.out.requests = 0

\* C13: a failure of the service during preview_query or process_area (here
\* on a valid range, where no invalid-date outcome is due) leaves the call as
\* the error of the service: not as the invalid-date error, and not as a
\* result with image_count 0.
C13_ServiceFailureSurfaces ==
    (/\ sarlast.op \in {"process_area", "preview_query"}
     /\ sarlast.fault # 0
     /\ ~InvalidRange(sarlast))
        => sarlast.out.kind = "EEException"

\* C18: the count a composite result carries is the number of items its
\* composite was built from, and that number is not zero.
C18_SizeIsContributed ==
    (sarlast.op = "process_area" /\ sarlast.out.kind = "SARData")
        => (/\ sarlast.out.contributed[1] > 0
            /\ sarlast.out.size = sarlast.out.contributed)

Abs(x) == IF x < 0 THEN 0 - x ELSE x

\* The value of the interval nearest to v.
Clamp(v) ==
    IF v < SourceMin THEN SourceMin ELSE IF v > SourceMax THEN SourceMax ELSE v

\* C17: the value start_export writes for a pixel of the composite is the
\* physical value the imagery held, within 0.5, for every value of the
\* source interval; for a value outside the interval it is the nearest end
\* of the interval.
C17_ExportRoundTrip ==
    export.stage = "exported"
        => 2 * Abs(export.value - Clamp(export.physical)) <= 1

----------------------------------------------------------------------------
(* Claims on the session *)

\* C7: a Preview Query leaves the AOI store and the time-range store (the
\* file and the map in memory) as they were, whatever it returns or raises.
C7_PreviewKeepsStores ==
    [][previews' # previews
        => (file' = file /\ trfile' = trfile /\ timeranges' = timeranges)]_vars

\* An even number of previews made, the last one on the error path, with
\* both stores filled.
C7_Witness ==
    /\ previews = 0
    /\ sarlast.op = "preview_query"
    /\ sarlast.out.kind = "preview_error"
    /\ Len(file) = 2
    /\ DOMAIN trfile[1] = TypedRangeNames

\* C20: whenever the query's area is set, it names an area of the store, so
\* get_area returns a feature; Preview Query and Execute Query never take
\* the geometry of a missing area.
C20_QueryAreaStored ==
    /\ query.aoi # None => QueryArea # None
    /\ sarlast.out.kind # "TypeError"

=============================================================================
